---------------------------- MODULE Spec2Model ----------------------------
(***************************************************************************)
(* A model of the stock-analysis agent: MarketAgent (src/agent.py) and the *)
(* indicator functions of src/advanced_recommender.py.                     *)
(*                                                                         *)
(* A Python str is modelled as a sequence of one-character strings, so     *)
(* that split, strip, lower, slicing and substring search are computed     *)
(* character by character, as Python computes them.  A float is modelled   *)
(* as an exact fraction, or as one of the two special values NaN and       *)
(* +infinity that the indicator arithmetic can produce.                    *)
(***************************************************************************)
EXTENDS Integers, Sequences, FiniteSets, TLC

(***************************************************************************)
(* Bounds of the model.                                                    *)
(***************************************************************************)
\* the longest generated LLM reply, in building blocks (ReplyPieces)
MaxPieces == 4
\* the longest generated reply to the "do we need news" question, in characters
MaxReply == 4
\* the longest closing-price series given to _compute_rsi
MaxCloses == 15
\* the most articles the search provider returns
MaxResults == 4
\* the most lines after the "Reasons:" line of a generated reasons section
MaxBullets == 4

(***************************************************************************)
(* Python str operations.                                                  *)
(***************************************************************************)
UpperLetters ==
  <<"A","B","C","D","E","F","G","H","I","J","K","L","M",
    "N","O","P","Q","R","S","T","U","V","W","X","Y","Z">>

LowerLetters ==
  <<"a","b","c","d","e","f","g","h","i","j","k","l","m",
    "n","o","p","q","r","s","t","u","v","w","x","y","z">>

\* str.lower() on one character
ToLower ==
  [c \in {UpperLetters[i] : i \in 1..26} |->
     LowerLetters[CHOOSE i \in 1..26 : UpperLetters[i] = c]]

LowerChar(c) == IF c \in DOMAIN ToLower THEN ToLower[c] ELSE c

\* str.lower()
Lower(s) == [i \in 1..Len(s) |-> LowerChar(s[i])]

\* the whitespace characters str.strip() removes (the ASCII ones that can
\* occur in the texts of the model)
IsSpace(c) == c \in {" ", "\n", "\t", "\r"}

RECURSIVE LStrip(_)
LStrip(s) ==
  IF s # <<>> /\ IsSpace(Head(s)) THEN LStrip(Tail(s)) ELSE s

RECURSIVE RStrip(_)
RStrip(s) ==
  IF s # <<>> /\ IsSpace(s[Len(s)]) THEN RStrip(SubSeq(s, 1, Len(s) - 1)) ELSE s

\* str.strip()
Strip(s) == RStrip(LStrip(s))

\* the Python expression  m in s
Contains(s, m) ==
  \E i \in 1..(Len(s) - Len(m) + 1) : \A j \in 1..Len(m) : s[i + j - 1] = m[j]

\* str.startswith(p)
StartsWith(s, p) ==
  Len(s) >= Len(p) /\ SubSeq(s, 1, Len(p)) = p

RECURSIVE SplitFrom(_, _, _, _)
SplitFrom(s, sep, i, cur) ==
  IF i > Len(s) THEN <<cur>>
  ELSE IF s[i] = sep THEN <<cur>> \o SplitFrom(s, sep, i + 1, <<>>)
  ELSE SplitFrom(s, sep, i + 1, Append(cur, s[i]))

\* str.split(sep) for a one-character separator: never empty
Split(s, sep) == SplitFrom(s, sep, 1, <<>>)

\* the Python expression  xs[-1]  on a non-empty list
Last(xs) == xs[Len(xs)]

\* the Python slice  s[n:]
SliceFrom(s, n) == SubSeq(s, n + 1, Len(s))

\* the Python slice  xs[:n]
SliceTo(xs, n) == SubSeq(xs, 1, IF Len(xs) < n THEN Len(xs) ELSE n)

(***************************************************************************)
(* The markers the response parser searches for (src/agent.py:240-264).    *)
(***************************************************************************)
RecommendationMarker ==
  <<"r","e","c","o","m","m","e","n","d","a","t","i","o","n",":">>

ReasonsMarker == <<"r","e","a","s","o","n","s",":">>

ConservativeMarker ==
  <<"c","o","n","s","e","r","v","a","t","i","v","e",":">>

AggressiveMarker == <<"a","g","g","r","e","s","s","i","v","e",":">>

\* Python None, and a present value
NoneVal == [isNone |-> TRUE, val |-> <<>>]

Some(v) == [isNone |-> FALSE, val |-> v]

(***************************************************************************)
(* The response parser (src/agent.py:236-266).                             *)
(***************************************************************************)
\* the default verdict "Hold"
Hold == <<"H","o","l","d">>

\* FirstRecommendation with a seeded fault: the marker is searched without
\* its colon
RECURSIVE FirstRecommendation_NoColon(_, _)
FirstRecommendation_NoColon(lines, i) ==
  IF i > Len(lines) THEN Hold
  ELSE IF Contains(Lower(lines[i]), SubSeq(RecommendationMarker, 1, 14))
    THEN Strip(Last(Split(lines[i], ":")))
    ELSE FirstRecommendation_NoColon(lines, i + 1)

RECURSIVE FirstRecommendation(_, _)
FirstRecommendation(lines, i) ==
  IF i > Len(lines) THEN Hold
  ELSE IF Contains(Lower(lines[i]), RecommendationMarker)
    THEN Strip(Last(Split(lines[i], ":")))
    ELSE FirstRecommendation(lines, i + 1)

_extract_recommendation(text) ==
  FirstRecommendation(Split(text, "\n"), 1)

\* BulletScan with a seeded fault: the scan does not stop at three points
RECURSIVE BulletScan_NoLimit(_, _, _, _)
BulletScan_NoLimit(lines, i, in_reasons, points) ==
  IF i > Len(lines) THEN points
  ELSE IF Contains(Lower(lines[i]), ReasonsMarker)
    THEN BulletScan_NoLimit(lines, i + 1, TRUE, points)
    ELSE LET line == Strip(lines[i])
             pts  == IF in_reasons /\ StartsWith(line, <<"-">>)
                       THEN Append(points, SliceFrom(line, 2))
                       ELSE points
         IN  BulletScan_NoLimit(lines, i + 1, in_reasons, pts)

RECURSIVE BulletScan(_, _, _, _)
BulletScan(lines, i, in_reasons, points) ==
  IF i > Len(lines) THEN points
  ELSE IF Contains(Lower(lines[i]), ReasonsMarker)
    THEN BulletScan(lines, i + 1, TRUE, points)
    ELSE LET line == Strip(lines[i])
             pts  == IF in_reasons /\ StartsWith(line, <<"-">>)
                       THEN Append(points, SliceFrom(line, 2))
                       ELSE points
         IN  IF Len(pts) >= 3 THEN pts
             ELSE BulletScan(lines, i + 1, in_reasons, pts)

_extract_bullet_points(text) ==
  BulletScan(Split(text, "\n"), 1, FALSE, <<>>)

RECURSIVE TargetScan(_, _, _)
TargetScan(lines, i, targets) ==
  IF i > Len(lines) THEN targets
  ELSE IF Contains(Lower(lines[i]), ConservativeMarker)
    THEN TargetScan(lines, i + 1,
           [targets EXCEPT !.conservative = Some(Strip(Last(Split(lines[i], "$"))))])
  ELSE IF Contains(Lower(lines[i]), AggressiveMarker)
    THEN TargetScan(lines, i + 1,
           [targets EXCEPT !.aggressive = Some(Strip(Last(Split(lines[i], "$"))))])
  ELSE TargetScan(lines, i + 1, targets)

_extract_price_targets(text) ==
  TargetScan(Split(text, "\n"), 1,
             [conservative |-> NoneVal, aggressive |-> NoneVal])

(***************************************************************************)
(* What a call of the language model gives back: a reply text, or a raised *)
(* exception (the call itself or reading response.text).                   *)
(***************************************************************************)
Reply(t) == [ok |-> TRUE, text |-> t]

LLMFailure == [ok |-> FALSE, text |-> <<>>]

\* the value _generate_analysis returns when the model call raised: a str
AnalysisError ==
  [type |-> "str", str |-> "Analysis error: ...", raw |-> <<>>,
   recommendation |-> <<>>, key_points |-> <<>>,
   targets |-> [conservative |-> NoneVal, aggressive |-> NoneVal]]

\* _generate_analysis, from the model call on (src/agent.py:196-208)
_generate_analysis(outcome) ==
  IF outcome.ok
    THEN [type |-> "dict", str |-> "", raw |-> outcome.text,
          recommendation |-> _extract_recommendation(outcome.text),
          key_points |-> _extract_bullet_points(outcome.text),
          targets |-> _extract_price_targets(outcome.text)]
    ELSE AnalysisError

\* the three characters of "yes"
Yes == <<"y","e","s">>

\* _decide_need_news with a seeded fault: the reply is not stripped before
\* the comparison
_decide_need_news_NoStrip(outcome) ==
  IF outcome.ok THEN StartsWith(Lower(outcome.text), Yes) ELSE TRUE

\* _decide_need_news, from the model call on (src/agent.py:225-233)
_decide_need_news(outcome) ==
  IF outcome.ok THEN StartsWith(Lower(Strip(outcome.text)), Yes) ELSE TRUE

(***************************************************************************)
(* State.                                                                  *)
(*   pc          position of the running call                              *)
(*   llm_reply   what the last language-model call gave back               *)
(*   tpl         how the reply text was built, when it was built from the  *)
(*               prompt's template (kept only to state properties)         *)
(*   need_news, analysis, ticker, stock_data, news_data, result, reasoning *)
(*               the locals of MarketAgent.analyze                         *)
(*   history     what the price-history fetch gave back                    *)
(*   pending     the search results _get_news has not processed yet        *)
(*   processed_news  the list _get_news is building                        *)
(*   calls       the external calls made by the running analyze, in order  *)
(*   exc         the exception that escaped, "" when none                  *)
(*   closes, rsi the argument and the result of _compute_rsi               *)
(***************************************************************************)
VARIABLES pc, llm_reply, tpl, need_news, analysis, ticker, history, stock_data,
          news_data, pending, processed_news, result, reasoning, calls, exc,
          closes, rsi

llmVars == <<llm_reply, tpl>>

agentVars ==
  <<ticker, history, stock_data, news_data, pending, processed_news, result,
    reasoning, calls, exc>>

rsiVars == <<closes, rsi>>

vars ==
  <<pc, llm_reply, tpl, need_news, analysis, ticker, history, stock_data,
    news_data, pending, processed_news, result, reasoning, calls, exc,
    closes, rsi>>

(***************************************************************************)
(* Reply texts.                                                            *)
(***************************************************************************)
RECURSIVE Flatten(_)
Flatten(ss) == IF ss = <<>> THEN <<>> ELSE Head(ss) \o Flatten(Tail(ss))

\* building blocks of generated replies: the marker words in several
\* casings, without their colon, and the characters the parser reacts to
ReplyPieces ==
  { <<"R","e","c","o","m","m","e","n","d","a","t","i","o","n">>,
    <<"r","e","a","s","o","n","s">>,
    <<"C","O","N","S","E","R","V","A","T","I","V","E">>,
    <<"A","g","g","r","e","s","s","i","v","e">>,
    <<":">>, <<" ">>, <<"\n">>, <<"-">>, <<"$">>, <<"A">> }

\* the values a well-formed template reply is filled with
Verdicts ==
  { <<"B","u","y">>, Hold, <<"S","e","l","l">>,
    <<"S","t","r","o","n","g"," ","B","u","y">> }

ReasonTexts ==
  { <<"A">>, <<"B">>, <<"C">>, <<"A"," ","B">>, <<"P",":"," ","$","1">> }

PriceTexts == { <<"1","0","0">>, <<"1","5","0">>, <<"9",".","5">> }

NoTemplate ==
  [used |-> FALSE, verdict |-> <<>>, reasons |-> <<>>,
   conservative |-> <<>>, aggressive |-> <<>>]

Templates ==
  [used : {TRUE}, verdict : Verdicts, reasons : [1..3 -> ReasonTexts],
   conservative : PriceTexts, aggressive : PriceTexts]

\* the reply format the prompt asks for (src/agent.py:185-193)
TemplateReply(t) ==
  <<"R","e","c","o","m","m","e","n","d","a","t","i","o","n",":"," ">> \o t.verdict
  \o <<"\n","R","e","a","s","o","n","s",":">>
  \o <<"\n","-"," ">> \o t.reasons[1]
  \o <<"\n","-"," ">> \o t.reasons[2]
  \o <<"\n","-"," ">> \o t.reasons[3]
  \o <<"\n","T","a","r","g","e","t","s",":">>
  \o <<"\n","-"," ","C","o","n","s","e","r","v","a","t","i","v","e",":"," ","$">>
  \o t.conservative
  \o <<"\n","-"," ","A","g","g","r","e","s","s","i","v","e",":"," ","$">>
  \o t.aggressive

\* lines joined with newlines
RECURSIVE JoinLines(_)
JoinLines(ls) ==
  IF ls = <<>> THEN <<>>
  ELSE IF Len(ls) = 1 THEN ls[1]
  ELSE Head(ls) \o <<"\n">> \o JoinLines(Tail(ls))

\* the lines of generated reasons sections: bullets with and without the
\* space after the dash, with surrounding whitespace, with two spaces after
\* the dash, a line without a dash, an empty line
BulletLines ==
  { <<"-"," ","A">>, <<"-","B">>, <<" ","-"," ","C"," ">>,
    <<"-"," "," ","D">>, <<"E">>, <<>> }

\* the "Reasons:" line of the template, alone or inside a longer line
ReasonsLines ==
  { <<"R","e","a","s","o","n","s",":">>,
    <<"K","e","y"," ","r","e","a","s","o","n","s",":"," ">> }

\* the lines before the "Reasons:" line: none, or one bullet
LinesBeforeReasons == { <<>>, << <<"-"," ","Z">> >> }

\* a reply that is a reasons section
BulletReply(before, marker, after) == JoinLines(before \o <<marker>> \o after)

\* the characters of generated replies to the "do we need news" question
DecideChars == {"y", "Y", "e", "E", "s", "S", " ", "n"}

(***************************************************************************)
(* Values of the locals before they are assigned.                          *)
(***************************************************************************)
NoReply == [ok |-> FALSE, text |-> <<>>]

NoAnalysis ==
  [type |-> "unset", str |-> "", raw |-> <<>>,
   recommendation |-> <<>>, key_points |-> <<>>,
   targets |-> [conservative |-> NoneVal, aggressive |-> NoneVal]]

\* a dict without keys
EmptyDict == <<>>

NoHistory == [ok |-> FALSE, closes |-> <<>>]

InitAgentLocals ==
  /\ ticker = ""
  /\ history = NoHistory
  /\ stock_data = EmptyDict
  /\ news_data = EmptyDict
  /\ pending = <<>>
  /\ processed_news = <<>>
  /\ result = EmptyDict
  /\ reasoning = <<>>
  /\ calls = <<>>
  /\ exc = ""

InitCommon ==
  /\ llm_reply = NoReply
  /\ tpl = NoTemplate
  /\ need_news = FALSE
  /\ analysis = NoAnalysis
  /\ InitAgentLocals
  /\ closes = <<>>
  /\ rsi = [raised |-> "", value |-> [k |-> "nan", n |-> 0, d |-> 1]]

(***************************************************************************)
(* SpecParse: one call of _generate_analysis, over the generated replies.  *)
(***************************************************************************)
InitParse == pc = "call" /\ InitCommon

GenerateAnalysisCall(outcome, t) ==
  /\ llm_reply' = outcome
  /\ tpl' = t
  /\ analysis' = _generate_analysis(outcome)
  /\ pc' = "done"
  /\ UNCHANGED <<need_news, agentVars, rsiVars>>

\* the reply is one of the generated texts
GenerateFromPieces ==
  /\ pc = "call"
  /\ \E k \in 0..MaxPieces : \E p \in [1..k -> ReplyPieces] :
       GenerateAnalysisCall(Reply(Flatten(p)), NoTemplate)

\* the reply follows the template of the prompt
GenerateFromTemplate ==
  /\ pc = "call"
  /\ \E t \in Templates : GenerateAnalysisCall(Reply(TemplateReply(t)), t)

\* the reply is a reasons section
GenerateFromBullets ==
  /\ pc = "call"
  /\ \E before \in LinesBeforeReasons : \E marker \in ReasonsLines :
       \E k \in 0..MaxBullets : \E after \in [1..k -> BulletLines] :
         GenerateAnalysisCall(Reply(BulletReply(before, marker, after)), NoTemplate)

\* the model call raises
GenerateFails ==
  /\ pc = "call"
  /\ GenerateAnalysisCall(LLMFailure, NoTemplate)

NextParse ==
  \/ GenerateFromPieces
  \/ GenerateFromTemplate
  \/ GenerateFromBullets
  \/ GenerateFails

SpecParse == InitParse /\ [][NextParse]_vars

(***************************************************************************)
(* SpecDecide: one call of _decide_need_news, over the generated replies.  *)
(***************************************************************************)
InitDecide == pc = "call" /\ InitCommon

DecideNeedNewsCall ==
  /\ pc = "call"
  /\ \E outcome \in {LLMFailure} \cup
                     {Reply(t) : t \in UNION {[1..k -> DecideChars] : k \in 0..MaxReply}} :
       /\ llm_reply' = outcome
       /\ need_news' = _decide_need_news(outcome)
  /\ pc' = "done"
  /\ UNCHANGED <<tpl, analysis, agentVars, rsiVars>>

NextDecide == DecideNeedNewsCall

SpecDecide == InitDecide /\ [][NextDecide]_vars

(***************************************************************************)
(* Floats: an exact fraction n/d with d > 0, NaN, or an infinity (n is its *)
(* sign).  Division by zero gives NaN or an infinity and does not raise,   *)
(* as in the float64 arithmetic of a pandas Series.                        *)
(***************************************************************************)
Fin(n, d) == [k |-> "fin", n |-> n, d |-> d]

NaN == [k |-> "nan", n |-> 0, d |-> 1]

Inf(sign) == [k |-> "inf", n |-> sign, d |-> 1]

Sign(n) == IF n < 0 THEN -1 ELSE 1

FNeg(a) == IF a.k = "nan" THEN NaN ELSE [a EXCEPT !.n = -a.n]

FAdd(a, b) ==
  IF a.k = "nan" \/ b.k = "nan" THEN NaN
  ELSE IF a.k = "inf" /\ b.k = "inf" THEN (IF a.n = b.n THEN a ELSE NaN)
  ELSE IF a.k = "inf" THEN a
  ELSE IF b.k = "inf" THEN b
  ELSE Fin(a.n * b.d + b.n * a.d, a.d * b.d)

FSub(a, b) == FAdd(a, FNeg(b))

FDiv(a, b) ==
  IF a.k = "nan" \/ b.k = "nan" THEN NaN
  ELSE IF a.k = "inf" /\ b.k = "inf" THEN NaN
  ELSE IF a.k = "inf" THEN Inf(a.n * Sign(b.n))
  ELSE IF b.k = "inf" THEN Fin(0, 1)
  ELSE IF b.n = 0 THEN (IF a.n = 0 THEN NaN ELSE Inf(Sign(a.n)))
  ELSE Fin(a.n * b.d * Sign(b.n), a.d * b.n * Sign(b.n))

\* a <= b, false when either is NaN
FLeq(a, b) ==
  /\ a.k # "nan" /\ b.k # "nan"
  /\ IF a.k = "inf" THEN a.n = -1 \/ (b.k = "inf" /\ b.n = 1)
     ELSE IF b.k = "inf" THEN b.n = 1
     ELSE a.n * b.d <= b.n * a.d

\* xs[lo] + ... + xs[hi]
RECURSIVE SumRange(_, _, _)
SumRange(xs, lo, hi) ==
  IF lo > hi THEN 0
  ELSE IF lo = hi THEN xs[lo]
  ELSE LET mid == (lo + hi) \div 2
       IN  SumRange(xs, lo, mid) + SumRange(xs, mid + 1, hi)

\* Series.rolling(window).mean(): NaN until the window is full
RollingMean(xs, window) ==
  [i \in 1..Len(xs) |->
     IF i < window THEN NaN ELSE Fin(SumRange(xs, i - window + 1, i), window)]

(***************************************************************************)
(* _compute_rsi (src/advanced_recommender.py:24-31).                       *)
(***************************************************************************)
\* the default of the period parameter
RSIPeriod == 14

\* series.diff().dropna()
Diff(series) ==
  [i \in 1..(IF Len(series) = 0 THEN 0 ELSE Len(series) - 1) |->
     series[i + 1] - series[i]]

\* delta.clip(lower=0)
ClipLower0(delta) == [i \in 1..Len(delta) |-> IF delta[i] < 0 THEN 0 ELSE delta[i]]

\* -delta.clip(upper=0)
NegClipUpper0(delta) == [i \in 1..Len(delta) |-> IF delta[i] > 0 THEN 0 ELSE -delta[i]]

_compute_rsi(series) ==
  LET delta   == Diff(series)
      ma_up   == RollingMean(ClipLower0(delta), RSIPeriod)
      ma_down == RollingMean(NegClipUpper0(delta), RSIPeriod)
  IN  IF delta = <<>>
        THEN [raised |-> "IndexError", value |-> NaN]
        ELSE [raised |-> "",
              value |-> FSub(Fin(100, 1),
                             FDiv(Fin(100, 1),
                                  FAdd(Fin(1, 1), FDiv(Last(ma_up), Last(ma_down)))))]

(***************************************************************************)
(* SpecRSI: a closing-price series is built, then _compute_rsi is applied. *)
(***************************************************************************)
ClosePrices == {10, 11}

NoRSI == [raised |-> "", value |-> NaN]

InitRSI ==
  /\ pc = "series"
  /\ llm_reply = NoReply
  /\ tpl = NoTemplate
  /\ need_news = FALSE
  /\ analysis = NoAnalysis
  /\ InitAgentLocals
  /\ closes = <<>>
  /\ rsi = NoRSI

\* one more daily close
AppendClose ==
  /\ pc = "series"
  /\ Len(closes) < MaxCloses
  /\ \E p \in ClosePrices : closes' = Append(closes, p)
  /\ UNCHANGED <<pc, rsi, llmVars, need_news, analysis, agentVars>>

ComputeRSI ==
  /\ pc = "series"
  /\ rsi' = _compute_rsi(closes)
  /\ pc' = "done"
  /\ UNCHANGED <<closes, llmVars, need_news, analysis, agentVars>>

NextRSI == AppendClose \/ ComputeRSI

SpecRSI == InitRSI /\ [][NextRSI]_vars

(***************************************************************************)
(* MarketAgent.analyze (src/agent.py:29-89) and the helpers it calls.      *)
(***************************************************************************)
\* the Python expression  key in d
HasKey(d, key) == key \in DOMAIN d

\* dict.get(key, default)
Get(d, key, default) == IF key \in DOMAIN d THEN d[key] ELSE default

\* the windows of the two moving averages
SMA50Window == 50

SMA200Window == 200

\* _get_stock_data with a seeded fault: a failure is reported under another
\* key than "error"
_get_stock_data_OtherKey(t, outcome) ==
  IF ~outcome.ok THEN [message |-> "Stock data error: ..."]
  ELSE IF outcome.closes = <<>>
    THEN [message |-> "No historical data found for " \o t]
  ELSE [ticker |-> t,
        current_price |-> Fin(Last(outcome.closes), 1),
        sma_50 |-> Last(RollingMean(outcome.closes, SMA50Window)),
        sma_200 |-> Last(RollingMean(outcome.closes, SMA200Window)),
        price_history |-> outcome.closes,
        sma_50_history |-> RollingMean(outcome.closes, SMA50Window),
        sma_200_history |-> RollingMean(outcome.closes, SMA200Window)]

\* _get_stock_data (src/agent.py:92-111); outcome is what yfinance gave:
\* a series of closes, or an exception
_get_stock_data(t, outcome) ==
  IF ~outcome.ok THEN [error |-> "Stock data error: ..."]
  ELSE IF outcome.closes = <<>>
    THEN [error |-> "No historical data found for " \o t]
  ELSE [ticker |-> t,
        current_price |-> Fin(Last(outcome.closes), 1),
        sma_50 |-> Last(RollingMean(outcome.closes, SMA50Window)),
        sma_200 |-> Last(RollingMean(outcome.closes, SMA200Window)),
        price_history |-> outcome.closes,
        sma_50_history |-> RollingMean(outcome.closes, SMA50Window),
        sma_200_history |-> RollingMean(outcome.closes, SMA200Window)]

\* the three forms of an article's summary
NoSummary == [kind |-> "No summary available", text |-> <<>>]

SummaryError == [kind |-> "Summary error: ...", text |-> <<>>]

\* _summarize_article (src/agent.py:138-160); the model is called only
\* for a non-empty text
_summarize_article(text, outcome) ==
  IF text = "" THEN NoSummary
  ELSE IF outcome.ok THEN [kind |-> "text", text |-> Strip(outcome.text)]
  ELSE SummaryError

\* one entry of processed_news (src/agent.py:125-132)
ProcessedArticle(article, summary) ==
  [title |-> Get(article, "title", "Untitled Article"),
   source |-> Get(article, "source", "Unknown"),
   url |-> Get(article, "url", ""),
   published_date |-> Get(article, "published_date", "Date not available"),
   content |-> Get(article, "content", ""),
   summary |-> summary]

\* the loop of _get_news up to the next article whose summary needs the model
RECURSIVE ProcessUntilModelCall(_, _)
ProcessUntilModelCall(todo, done) ==
  IF todo = <<>> THEN [todo |-> todo, done |-> done]
  ELSE IF Get(Head(todo), "content", "") = ""
    THEN ProcessUntilModelCall(Tail(todo),
           Append(done, ProcessedArticle(Head(todo), NoSummary)))
    ELSE [todo |-> todo, done |-> done]

\* one line of the reasoning log: a text, with the numbers or the string
\* formatted into it
Line(text) == [text |-> text, nums |-> <<>>, str |-> <<>>]

(***************************************************************************)
(* What the providers give back in the model.                              *)
(***************************************************************************)
Tickers == {"AAPL", "ZZZZ"}

HistoryLengths == {1, 50, 200}

Histories ==
  {<<>>} \cup {[i \in 1..n |-> 100 + (i % 7)] : n \in HistoryLengths}

HistoryOutcomes ==
  {[ok |-> TRUE, closes |-> h] : h \in Histories} \cup {NoHistory}

FullArticle ==
  [title |-> "Earnings beat", source |-> "wire", url |-> "https://news/1",
   published_date |-> "2025-01-01", content |-> "body"]

BareArticle == [url |-> "https://news/2"]

SearchFailure == [ok |-> FALSE, results |-> <<>>]

SearchOutcomes ==
  {SearchFailure} \cup
  {[ok |-> TRUE, results |-> rs] :
     rs \in UNION {[1..k -> {FullArticle, BareArticle}] : k \in 0..MaxResults}}

AgentDecideOutcomes ==
  { Reply(<<"Y","e","s">>), Reply(<<"N","o">>), Reply(<<" ","y","e","s","\n">>),
    LLMFailure }

SummaryOutcomes == { Reply(<<"-"," ","P","\n">>), LLMFailure }

AgentGenerateOutcomes ==
  { Reply(TemplateReply([used |-> TRUE, verdict |-> <<"B","u","y">>,
                         reasons |-> << <<"A">>, <<"B">>, <<"C">> >>,
                         conservative |-> <<"1","0","0">>,
                         aggressive |-> <<"1","5","0">>])),
    Reply(<<"n","o"," ","v","i","e","w">>),
    LLMFailure }

(***************************************************************************)
(* Spec: calls of MarketAgent.analyze, one step per external call.         *)
(***************************************************************************)
Init == pc = "idle" /\ InitCommon

\* CallAnalyze with a seeded fault: the log of the earlier call is kept and
\* appended to
CallAnalyze_KeepsLog ==
  /\ pc \in {"idle", "returned", "raised"}
  /\ \E t \in Tickers :
       /\ ticker' = t
       /\ reasoning' = Append(reasoning, Line("Step 1: Fetching 1y history for " \o t))
  /\ pc' = "fetch"
  /\ history' = NoHistory
  /\ stock_data' = EmptyDict
  /\ news_data' = EmptyDict
  /\ pending' = <<>>
  /\ processed_news' = <<>>
  /\ result' = EmptyDict
  /\ calls' = <<>>
  /\ exc' = ""
  /\ llm_reply' = NoReply
  /\ need_news' = FALSE
  /\ analysis' = NoAnalysis
  /\ UNCHANGED <<tpl, rsiVars>>

\* analyze is entered (lines 31-34); the locals of an earlier call are gone
CallAnalyze ==
  /\ pc \in {"idle", "returned", "raised"}
  /\ \E t \in Tickers :
       /\ ticker' = t
       /\ reasoning' = <<Line("Step 1: Fetching 1y history for " \o t)>>
  /\ pc' = "fetch"
  /\ history' = NoHistory
  /\ stock_data' = EmptyDict
  /\ news_data' = EmptyDict
  /\ pending' = <<>>
  /\ processed_news' = <<>>
  /\ result' = EmptyDict
  /\ calls' = <<>>
  /\ exc' = ""
  /\ llm_reply' = NoReply
  /\ need_news' = FALSE
  /\ analysis' = NoAnalysis
  /\ UNCHANGED <<tpl, rsiVars>>

\* lines 35-48: the price fetch, the early return, the log up to Step 3
GetStockData ==
  /\ pc = "fetch"
  /\ \E outcome \in HistoryOutcomes :
       LET sd == _get_stock_data(ticker, outcome) IN
       /\ history' = outcome
       /\ stock_data' = sd
       /\ calls' = Append(calls, "yf.history")
       /\ IF HasKey(sd, "error")
            THEN /\ result' = [reasoning |-> reasoning] @@ sd
                 /\ pc' = "returned"
                 /\ UNCHANGED <<reasoning, exc>>
          ELSE IF ~HasKey(sd, "current_price")
            THEN /\ pc' = "raised"
                 /\ exc' = "KeyError"
                 /\ UNCHANGED <<reasoning, result>>
          ELSE /\ reasoning' = reasoning \o
                     << [text |-> "  -> Got price, SMA50, SMA200",
                         nums |-> <<sd.current_price, sd.sma_50, sd.sma_200>>,
                         str |-> <<>>],
                        Line("Step 2: SMAs computed"),
                        Line("Step 3: Asking Gemini if news is needed") >>
               /\ pc' = "decide"
               /\ UNCHANGED <<result, exc>>
  /\ UNCHANGED <<ticker, news_data, pending, processed_news, llmVars, need_news,
                 analysis, rsiVars>>

\* lines 55-69 after _get_news has returned nd: the count, the log, and the
\* argument news_data["news"] of _generate_analysis
AfterGetNews(nd) ==
  /\ news_data' = nd
  /\ reasoning' = reasoning \o
       << Line("  -> Received " \o ToString(Len(Get(nd, "news", <<>>))) \o " articles"),
          Line("Step 5: Generating recommendation with Gemini") >>
  /\ IF HasKey(nd, "news")
       THEN pc' = "generate" /\ exc' = exc
       ELSE pc' = "raised" /\ exc' = "KeyError"

\* lines 49-63: the news decision and what follows it up to the next call
DecideNeedNews ==
  /\ pc = "decide"
  /\ \E outcome \in AgentDecideOutcomes :
       LET need == _decide_need_news(outcome) IN
       /\ llm_reply' = outcome
       /\ need_news' = need
       /\ calls' = Append(calls, "llm.generate_content: need news")
       /\ IF need
            THEN /\ reasoning' = reasoning \o
                       << Line("  -> Gemini says: Yes"),
                          Line("Step 4: Fetching top-3 news articles") >>
                 /\ pc' = "search"
                 /\ UNCHANGED news_data
            ELSE /\ reasoning' = reasoning \o
                       << Line("  -> Gemini says: No"),
                          Line("Step 4: Skipping news fetch"),
                          Line("Step 5: Generating recommendation with Gemini") >>
                 /\ news_data' = [news |-> <<>>]
                 /\ pc' = "generate"
  /\ UNCHANGED <<ticker, history, stock_data, pending, processed_news, result, exc,
                 tpl, analysis, rsiVars>>

\* _get_news, lines 115-136: the search, and the loop up to the first
\* article to summarise
GetNews ==
  /\ pc = "search"
  /\ \E outcome \in SearchOutcomes :
       /\ calls' = Append(calls, "tavily.search")
       /\ IF ~outcome.ok
            THEN /\ AfterGetNews([error |-> "News API error: ..."])
                 /\ UNCHANGED <<pending, processed_news>>
            ELSE LET p == ProcessUntilModelCall(SliceTo(outcome.results, 3), <<>>) IN
                 /\ pending' = p.todo
                 /\ processed_news' = p.done
                 /\ IF p.todo = <<>>
                      THEN AfterGetNews([news |-> p.done])
                      ELSE pc' = "summarize" /\ UNCHANGED <<news_data, reasoning, exc>>
  /\ UNCHANGED <<ticker, history, stock_data, result, llmVars, need_news, analysis,
                 rsiVars>>

\* _summarize_article for the next article, and the loop up to the one after
SummarizeArticle ==
  /\ pc = "summarize"
  /\ \E outcome \in SummaryOutcomes :
       LET article == Head(pending)
           summary == _summarize_article(Get(article, "content", ""), outcome)
           p == ProcessUntilModelCall(Tail(pending),
                  Append(processed_news, ProcessedArticle(article, summary)))
       IN
       /\ llm_reply' = outcome
       /\ calls' = Append(calls, "llm.generate_content: summary")
       /\ pending' = p.todo
       /\ processed_news' = p.done
       /\ IF p.todo = <<>>
            THEN AfterGetNews([news |-> p.done])
            ELSE UNCHANGED <<pc, news_data, reasoning, exc>>
  /\ UNCHANGED <<ticker, history, stock_data, result, tpl, need_news, analysis,
                 rsiVars>>

\* lines 64-89: _generate_analysis, the verdict, the result
GenerateAnalysis ==
  /\ pc = "generate"
  /\ \E outcome \in AgentGenerateOutcomes :
       LET a == _generate_analysis(outcome) IN
       /\ llm_reply' = outcome
       /\ analysis' = a
       /\ calls' = Append(calls, "llm.generate_content: analysis")
       /\ IF a.type # "dict"
            THEN /\ pc' = "raised"
                 /\ exc' = "AttributeError"
                 /\ UNCHANGED <<reasoning, result>>
            ELSE /\ reasoning' = Append(reasoning,
                       [text |-> "  -> Recommendation: ", nums |-> <<>>,
                        str |-> a.recommendation])
                 /\ result' =
                      [ticker |-> ticker,
                       price |-> stock_data.current_price,
                       sma_50 |-> stock_data.sma_50,
                       sma_200 |-> stock_data.sma_200,
                       news |-> Get(news_data, "news", <<>>),
                       analysis |-> a,
                       timestamp |-> "datetime.now().isoformat()",
                       price_history |-> Get(stock_data, "price_history", <<>>),
                       sma_50_history |-> Get(stock_data, "sma_50_history", <<>>),
                       sma_200_history |-> Get(stock_data, "sma_200_history", <<>>),
                       reasoning |-> reasoning']
                 /\ pc' = "returned"
                 /\ UNCHANGED exc
  /\ UNCHANGED <<ticker, history, stock_data, news_data, pending, processed_news,
                 tpl, need_news, rsiVars>>

Next ==
  \/ CallAnalyze
  \/ GetStockData
  \/ DecideNeedNews
  \/ GetNews
  \/ SummarizeArticle
  \/ GenerateAnalysis

Spec == Init /\ [][Next]_vars

(***************************************************************************)
(* Properties of the response parser (SpecParse).                          *)
(***************************************************************************)
\* t holds marker m at position i, whatever the casing of t
MarkerAt(t, m, i) ==
  /\ i + Len(m) - 1 <= Len(t)
  /\ \A j \in 1..Len(m) : LowerChar(t[i + j - 1]) = m[j]

HasMarker(t, m) == \E i \in 1..Len(t) : MarkerAt(t, m, i)

NoMarkers(t) ==
  \A m \in {RecommendationMarker, ReasonsMarker, ConservativeMarker, AggressiveMarker} :
    ~HasMarker(t, m)

\* C4: a reply that holds none of the four markers, in any casing, parses to
\* the recommendation "Hold", no key points and two null targets.
C4_NoMarkersGiveDefaults ==
  (pc = "done" /\ llm_reply.ok /\ NoMarkers(llm_reply.text)) =>
    /\ analysis.type = "dict"
    /\ analysis.recommendation = Hold
    /\ analysis.key_points = <<>>
    /\ analysis.targets = [conservative |-> NoneVal, aggressive |-> NoneVal]

\* C4's case: a parsed reply without markers that holds a marker word
\* without its colon, a dash and a dollar sign or a colon elsewhere
C4_Witness ==
  /\ pc = "done" /\ llm_reply.ok /\ NoMarkers(llm_reply.text)
  /\ \E i \in 1..Len(llm_reply.text) :
       MarkerAt(llm_reply.text, SubSeq(ReasonsMarker, 1, 7), i)
  /\ \E i \in 1..Len(llm_reply.text) : llm_reply.text[i] = "-"
  /\ \E i \in 1..Len(llm_reply.text) : llm_reply.text[i] = ":"
  /\ analysis.recommendation = Hold

\* the example reply of the specification, written out
ExampleReply ==
  <<"R","e","c","o","m","m","e","n","d","a","t","i","o","n",":"," ","B","u","y","\n",
    "R","e","a","s","o","n","s",":","\n",
    "-"," ","A","\n",
    "-"," ","B","\n",
    "-"," ","C","\n",
    "T","a","r","g","e","t","s",":","\n",
    "-"," ","C","o","n","s","e","r","v","a","t","i","v","e",":"," ","$","1","0","0","\n",
    "-"," ","A","g","g","r","e","s","s","i","v","e",":"," ","$","1","5","0">>

\* C5: a reply that follows the template, filled with a verdict, three reason
\* texts and two prices, parses to exactly that verdict, those three reasons
\* in order and those two prices.
C5_TemplateParsedExactly ==
  (pc = "done" /\ tpl.used) =>
    /\ analysis.type = "dict"
    /\ analysis.recommendation = tpl.verdict
    /\ analysis.key_points = <<tpl.reasons[1], tpl.reasons[2], tpl.reasons[3]>>
    /\ analysis.targets = [conservative |-> Some(tpl.conservative),
                           aggressive |-> Some(tpl.aggressive)]

\* C5's case: the specification's example reply has been parsed
C5_Witness ==
  /\ pc = "done" /\ tpl.used
  /\ llm_reply.text = ExampleReply
  /\ analysis.recommendation = <<"B","u","y">>
  /\ analysis.key_points = << <<"A">>, <<"B">>, <<"C">> >>
  /\ analysis.targets = [conservative |-> Some(<<"1","0","0">>),
                         aggressive |-> Some(<<"1","5","0">>)]

\* the first position of marker m in line, 0 when there is none
FirstMarkerPos(line, m) ==
  IF HasMarker(line, m)
    THEN CHOOSE i \in 1..Len(line) :
           MarkerAt(line, m, i) /\ \A k \in 1..(i - 1) : ~MarkerAt(line, m, k)
    ELSE 0

\* what C10 describes: on the first line that holds the marker, the trimmed
\* text after the marker's colon; "Hold" when no line holds it
RECURSIVE TextAfterMarkerColon(_, _)
TextAfterMarkerColon(lines, i) ==
  IF i > Len(lines) THEN Hold
  ELSE IF HasMarker(lines[i], RecommendationMarker)
    THEN Strip(SliceFrom(lines[i],
                 FirstMarkerPos(lines[i], RecommendationMarker)
                   + Len(RecommendationMarker) - 1))
    ELSE TextAfterMarkerColon(lines, i + 1)

\* C10: the recommendation is the trimmed text that follows the colon of the
\* marker on the first line that holds "recommendation:", also when further
\* colons follow on that line, and "Hold" when no line holds the marker.
C10_TextAfterTheMarkerColon ==
  (pc = "done" /\ llm_reply.ok) =>
    analysis.recommendation = TextAfterMarkerColon(Split(llm_reply.text, "\n"), 1)

\* the index of the first line that holds "reasons:", 0 when there is none
FirstReasonsLine(lines) ==
  IF \E i \in 1..Len(lines) : HasMarker(lines[i], ReasonsMarker)
    THEN CHOOSE i \in 1..Len(lines) :
           /\ HasMarker(lines[i], ReasonsMarker)
           /\ \A k \in 1..(i - 1) : ~HasMarker(lines[k], ReasonsMarker)
    ELSE 0

\* the trimmed text of a line begins with a dash
IsDashLine(line) == Strip(line) # <<>> /\ Strip(line)[1] = "-"

\* what C11 describes: the trimmed text of a dash line without its leading
\* dash, and without the space that follows the dash when there is one
WithoutDashAndSpace(line) ==
  LET rest == SliceFrom(Strip(line), 1)
  IN  IF rest # <<>> /\ rest[1] = " " THEN SliceFrom(rest, 1) ELSE rest

\* C11: the key points are at most three; they come, in reply order, from
\* lines after the first "reasons:" line whose trimmed text begins with a
\* dash, and each one is that line's trimmed text with only the leading dash
\* and the space after it removed; no dash line before the marker is taken.
C11_BulletsAreDashLinesAfterMarker ==
  (pc = "done" /\ llm_reply.ok) =>
    LET lines  == Split(llm_reply.text, "\n")
        points == analysis.key_points
        first  == FirstReasonsLine(lines)
    IN  /\ Len(points) <= 3
        /\ points # <<>> => first > 0
        /\ \E from \in [1..Len(points) -> (first + 1)..Len(lines)] :
             /\ \A a, b \in 1..Len(points) : a < b => from[a] < from[b]
             /\ \A a \in 1..Len(points) :
                  /\ IsDashLine(lines[from[a]])
                  /\ points[a] = WithoutDashAndSpace(lines[from[a]])

\* the line holds a dollar sign
HasDollar(line) == \E i \in 1..Len(line) : line[i] = "$"

\* the text that follows the last dollar sign of a line that holds one
AfterLastDollar(line) ==
  LET last == CHOOSE i \in 1..Len(line) :
                /\ line[i] = "$"
                /\ \A k \in (i + 1)..Len(line) : line[k] # "$"
  IN  SliceFrom(line, last)

\* what C12 describes, for one target and its marker: null when no line
\* holds the marker; otherwise the trimmed text after the last dollar sign
\* of a line that holds the marker, and never text of a line without one
TargetAsDescribed(target, marker, lines) ==
  /\ (\A i \in 1..Len(lines) : ~HasMarker(lines[i], marker)) => target.isNone
  /\ ~target.isNone =>
       \E i \in 1..Len(lines) :
         /\ HasMarker(lines[i], marker)
         /\ HasDollar(lines[i])
         /\ target.val = Strip(AfterLastDollar(lines[i]))

\* C12: each of the two targets is the text that follows the last dollar
\* sign on a line that holds its marker "conservative:" or "aggressive:" in
\* any casing; it is null when no line holds its marker, and a marker line
\* without a dollar sign does not give a target made of other text.
C12_TargetsFollowLastDollarOfMarkerLine ==
  (pc = "done" /\ llm_reply.ok) =>
    LET lines == Split(llm_reply.text, "\n")
    IN  /\ TargetAsDescribed(analysis.targets.conservative, ConservativeMarker, lines)
        /\ TargetAsDescribed(analysis.targets.aggressive, AggressiveMarker, lines)

(***************************************************************************)
(* Properties of the news decision (SpecDecide).                           *)
(***************************************************************************)
\* t starts with y, e, s in any casing, after k characters
YesAt(t, k) ==
  /\ Len(t) >= k + 3
  /\ t[k + 1] \in {"y", "Y"}
  /\ t[k + 2] \in {"e", "E"}
  /\ t[k + 3] \in {"s", "S"}

\* C6, as stated: the decision is true exactly when the reply text starts
\* with "yes" in any casing, or the model call failed.
C6_TrueIffReplyStartsWithYes ==
  pc = "done" => (need_news <=> (~llm_reply.ok \/ YesAt(llm_reply.text, 0)))

\* C6, amended: the decision is true exactly when the reply text, after its
\* leading whitespace, starts with "yes" in any casing, or the model call
\* failed.
C6_TrueIffTrimmedReplyStartsWithYes ==
  pc = "done" =>
    (need_news <=>
       \/ ~llm_reply.ok
       \/ \E k \in 0..Len(llm_reply.text) :
            /\ \A j \in 1..k : IsSpace(llm_reply.text[j])
            /\ YesAt(llm_reply.text, k))

\* C6's case: a reply with leading whitespace before "yes" was answered true
C6_Witness ==
  /\ pc = "done" /\ llm_reply.ok /\ need_news
  /\ Len(llm_reply.text) > 0 /\ IsSpace(llm_reply.text[1])

(***************************************************************************)
(* Properties of the RSI (SpecRSI).                                        *)
(***************************************************************************)
\* the closes fill the window: RSIPeriod differences
FillsWindow(series) == Len(series) >= RSIPeriod + 1

\* the differences of the last window
LastWindow(series) ==
  SubSeq(Diff(series), Len(series) - RSIPeriod, Len(series) - 1)

\* no close of the last window is below the one before it
NoLossInWindow(series) ==
  \A i \in 1..RSIPeriod : LastWindow(series)[i] >= 0

\* C7: for a series that fills the window the RSI is a number between 0 and
\* 100, and it is 100 when the window holds no loss, a flat window included.
C7_RSIDefinedAndInRange ==
  (pc = "done" /\ FillsWindow(closes)) =>
    /\ rsi.raised = ""
    /\ rsi.value.k = "fin"
    /\ FLeq(Fin(0, 1), rsi.value) /\ FLeq(rsi.value, Fin(100, 1))
    /\ NoLossInWindow(closes) =>
         (rsi.value.k = "fin" /\ rsi.value.n = 100 * rsi.value.d)

(***************************************************************************)
(* Properties of MarketAgent.analyze (Spec).                               *)
(***************************************************************************)
Ended == pc \in {"returned", "raised"}

PastFetch == pc \notin {"idle", "fetch"}

\* how often the running analyze has made the call named c
Count(c) == Cardinality({i \in 1..Len(calls) : calls[i] = c})

\* the position of the first call named c, 0 when there is none
FirstIndex(c) ==
  IF Count(c) = 0 THEN 0
  ELSE CHOOSE i \in 1..Len(calls) :
         calls[i] = c /\ \A k \in 1..(i - 1) : calls[k] # c

NeedNewsCall == "llm.generate_content: need news"

SummaryCall == "llm.generate_content: summary"

AnalysisCall == "llm.generate_content: analysis"

\* C1: when the price-history fetch gives an empty series, analyze returns at
\* once a result with an "error" key, and that run calls neither the search
\* provider nor the language model.
C1_EmptyHistoryErrorAndNoCalls ==
  (PastFetch /\ history.ok /\ history.closes = <<>>) =>
    /\ pc = "returned"
    /\ exc = ""
    /\ HasKey(result, "error")
    /\ calls = <<"yf.history">>

\* C1's case: analyze has returned for an empty price history
C1_Witness ==
  /\ pc = "returned" /\ history.ok /\ history.closes = <<>>
  /\ HasKey(result, "error") /\ HasKey(result, "reasoning")
  /\ Count("tavily.search") = 0 /\ Count(NeedNewsCall) = 0

\* C2: when the price fetch succeeded, the news decision was true and the
\* search call raised, analyze returns a result whose news is the empty list,
\* and no exception escapes.
C2_SearchFailureGivesEmptyNews ==
  (Ended /\ HasKey(stock_data, "current_price") /\ need_news
     /\ HasKey(news_data, "error")) =>
    /\ pc = "returned"
    /\ exc = ""
    /\ HasKey(result, "news")
    /\ result.news = <<>>

\* C3: when the price fetch succeeded and the model call of
\* _generate_analysis raised, the analysis is the "Analysis error: ..." text
\* and analyze returns a result, with no exception escaping.
C3_GenerateFailureStillReturns ==
  (Ended /\ HasKey(stock_data, "current_price") /\ analysis.type = "str") =>
    /\ pc = "returned"
    /\ exc = ""
    /\ HasKey(result, "analysis")
    /\ result.analysis = AnalysisError

\* C8: for a non-empty series with fewer points than a window, the indicator
\* computation signals an error, and no undefined value is carried on.
C8_ShortSeriesSignalsInsufficientHistory ==
  (PastFetch /\ history.ok /\ history.closes # <<>>
     /\ Len(history.closes) < SMA200Window) =>
    /\ HasKey(stock_data, "error")
    /\ ~HasKey(stock_data, "sma_200")

\* C9: the news decision comes only after a successful price fetch; the
\* search is called at most once, after the decision and only when it was
\* true; the analysis call is the last call, made at most once, and exactly
\* once in every run that got past the price fetch; a run whose decision was
\* false returns an empty news list.
C9_FixedCallOrder ==
  /\ Count(NeedNewsCall) > 0 =>
       /\ calls[1] = "yf.history" /\ Count("yf.history") = 1
       /\ HasKey(stock_data, "current_price")
       /\ Count(NeedNewsCall) = 1 /\ FirstIndex(NeedNewsCall) = 2
  /\ Count("tavily.search") <= 1
  /\ Count("tavily.search") = 1 =>
       (need_news /\ FirstIndex("tavily.search") = 3)
  /\ Count(SummaryCall) > 0 => FirstIndex(SummaryCall) > 3
  /\ Count(AnalysisCall) <= 1
  /\ Count(AnalysisCall) = 1 =>
       (FirstIndex(AnalysisCall) = Len(calls) /\ FirstIndex(AnalysisCall) > 2 /\ Ended)
  /\ (Ended /\ HasKey(stock_data, "current_price")) => Count(AnalysisCall) = 1
  /\ (pc = "returned" /\ HasKey(result, "news") /\ ~need_news) => result.news = <<>>

\* the N of a "Step N" entry of the reasoning log, 0 for any other entry
StepNumber(line) ==
  IF line.text \in {"Step 1: Fetching 1y history for " \o t : t \in Tickers} THEN 1
  ELSE IF line.text = "Step 2: SMAs computed" THEN 2
  ELSE IF line.text = "Step 3: Asking Gemini if news is needed" THEN 3
  ELSE IF line.text \in {"Step 4: Fetching top-3 news articles",
                          "Step 4: Skipping news fetch"} THEN 4
  ELSE IF line.text = "Step 5: Generating recommendation with Gemini" THEN 5
  ELSE 0

IsStepNumber(n) == n > 0

\* the numbers of the "Step N" entries of a log, in log order
StepNumbers(log) ==
  SelectSeq([i \in 1..Len(log) |-> StepNumber(log[i])], IsStepNumber)

\* the log says that news was fetched
SaysNewsFetched(log) ==
  \E i \in 1..Len(log) : log[i].text = "Step 4: Fetching top-3 news articles"

\* a returned result carries the log of its run: Step 1 alone under an
\* "error" key, Steps 1 to 5 once each and in order otherwise, with a Step 4
\* entry that says fetched exactly when the decision was true
ReturnedLogAsDescribed ==
  pc = "returned" =>
    /\ HasKey(result, "reasoning")
    /\ result.reasoning = reasoning
    /\ IF HasKey(result, "error")
         THEN StepNumbers(result.reasoning) = <<1>>
         ELSE /\ StepNumbers(result.reasoning) = <<1, 2, 3, 4, 5>>
              /\ SaysNewsFetched(result.reasoning) <=> need_news

\* a step of analyze: entering it leaves a log that holds the Step 1 entry
\* of this call and nothing of an earlier one; every other step keeps the
\* entries the log has and may add entries after them
LogOnlyAppended ==
  IF pc' = "fetch" /\ pc # "fetch"
    THEN /\ Len(reasoning') = 1
         /\ StepNumber(reasoning'[1]) = 1
    ELSE /\ Len(reasoning') >= Len(reasoning)
         /\ SubSeq(reasoning', 1, Len(reasoning)) = reasoning

\* C13: every result analyze returns, the error-tagged one included, carries
\* a reasoning log that starts empty at each call and is only appended to;
\* its "Step N" entries are in increasing order of N, each at most once, and
\* are those of the steps that ran: Step 1 alone on the error-tagged path,
\* Steps 1 to 5 on a completed run, whose Step 4 entry says that news was
\* fetched exactly when the news decision was true.
C13_ReasoningLogFollowsTheRun ==
  []ReturnedLogAsDescribed /\ [][LogOnlyAppended]_vars

\* C13's case: a completed run that fetched news has returned its log of
\* nine entries
C13_Witness ==
  /\ pc = "returned" /\ ~HasKey(result, "error") /\ need_news
  /\ HasKey(result, "reasoning")
  /\ Len(result.reasoning) = 9
  /\ StepNumbers(result.reasoning) = <<1, 2, 3, 4, 5>>
  /\ SaysNewsFetched(result.reasoning)

=============================================================================
